---- MODULE Spec2Model ----
(***************************************************************************)
(* A model of the todo manager: the `todo` package (CLI commands and the   *)
(* Langchain tools over one SQLite store of tasks, categories and tags)    *)
(* and the `src` package (TaskService, its CLI and the Agno toolkit over   *)
(* a second store of tasks).                                               *)
(*                                                                         *)
(* Python's None is NoneStr for strings, NoTime for timestamps and NoId    *)
(* for foreign keys.  A timestamp is a number of clock ticks.              *)
(***************************************************************************)
EXTENDS Integers, Sequences, FiniteSets, TLC

VARIABLES
    tasks,       \* todo.db, table tasks: id -> row
    categories,  \* todo.db, table categories: id -> row
    tags,        \* todo.db, table tags: id -> row
    svc,         \* ~/.todo/todo.db of the src package, table tasks: id -> row
    now,         \* the wall clock read by datetime.now() / func.now()
    out,         \* what the last command or tool call did and reported
    messages,    \* TodoChatBot.messages, the chat history sent to the model
    turns,       \* the iterations the chat loop has run
    sessions     \* the database sessions open in concurrent commands

vars == <<tasks, categories, tags, svc, now, out, messages, turns, sessions>>

(* ------------------------------ bounds -------------------------------- *)

\* the largest primary key a table hands out
MaxId == 2
\* the last clock tick
MaxTime == 3
\* the number of tasks filed under categories and tags
MaxFiled == 1

\* the iterations of the chat loop that are followed
MaxTurns == 7
\* the tool calls one response of the language model may carry
MaxCalls == 1

\* the commands that run at the same time, each in its own session
MaxSessions == 2

(* --------------------------- the data model --------------------------- *)

NoneStr == "<None>"
NoTime == 0
NoId == 0

PENDING == "pending"
IN_PROGRESS == "in_progress"
COMPLETED == "completed"
CANCELLED == "cancelled"

TaskStatus == {PENDING, IN_PROGRESS, COMPLETED, CANCELLED}
TaskPriority == {"low", "medium", "high", "urgent"}
SvcTaskPriority == {"low", "medium", "high"}

\* Python truthiness of an Optional[str]: None and "" are false
Truthy(s) == s # NoneStr /\ s # ""

\* str.lower() on the strings the model passes
Lower(s) ==
    CASE s = "COMPLETED" -> "completed"
      [] s = "Pending" -> "pending"
      [] s = "HIGH" -> "high"
      [] s = "MILK" -> "milk"
      [] s = "Tomorrow" -> "tomorrow"
      [] s = "NEXT WEEK" -> "next week"
      [] OTHER -> s

\* a table as a function from the primary keys in use to rows
Ids(table) == DOMAIN table

Max(S) == CHOOSE x \in S : \A y \in S : y <= x

\* SQLite INTEGER PRIMARY KEY: one more than the largest key in the table
NewId(table) == IF Ids(table) = {} THEN 1 ELSE Max(Ids(table)) + 1

Insert(table, id, row) ==
    [i \in Ids(table) \cup {id} |-> IF i = id THEN row ELSE table[i]]

DeleteKeeps(table, S) == table

\* session.delete of the rows with the keys S, committed
Delete(table, S) == [i \in Ids(table) \ S |-> table[i]]

EmptyTable == [i \in {} |-> 0]

\* db.query(M).filter(M.name == name).first(): the key, or NoId
ByName(table, name) ==
    IF \E i \in Ids(table) : table[i].name = name
    THEN CHOOSE i \in Ids(table) :
            /\ table[i].name = name
            /\ \A j \in Ids(table) : table[j].name = name => i <= j
    ELSE NoId

(* ------------------------------- dates -------------------------------- *)

\* A timestamp is a count of ticks: DayTicks ticks make a calendar day,
\* thirty days a month and twelve months a year, and tick 0 is midnight of
\* 2024-01-01.
DayTicks == 2

YearTicks == 12 * 30 * DayTicks

\* datetime(year, 1, 1 + day, tick of the day), with days counted from 0
datetime(year, day, tick) == (year - 2024) * YearTicks + day * DayTicks + tick

\* datetime.date(): the calendar day of a timestamp
date(t) == t \div DayTicks

\* The date strings the model passes, with the strptime format each one
\* matches and the timestamp it denotes. strptime fills the fields a format
\* does not name from 1900-01-01 00:00:00.
Lexicon ==
    [s \in {"2024-01-02", "2024-01-02 10:30", "2024-01-03 10:30", "01-02", "01/02"} |->
        CASE s = "2024-01-02" -> [fmt |-> "%Y-%m-%d", value |-> datetime(2024, 1, 0)]
          [] s = "2024-01-02 10:30" ->
                [fmt |-> "%Y-%m-%d %H:%M", value |-> datetime(2024, 1, 1)]
          [] s = "2024-01-03 10:30" ->
                [fmt |-> "%Y-%m-%d %H:%M", value |-> datetime(2024, 2, 1)]
          [] s = "01-02" -> [fmt |-> "%m-%d", value |-> datetime(1900, 1, 0)]
          [] s = "01/02" -> [fmt |-> "%m/%d", value |-> datetime(1900, 1, 0)]]

\* datetime.strptime(date_str, fmt): the timestamp, or NoTime for ValueError
strptime(date_str, fmt) ==
    IF date_str \in DOMAIN Lexicon /\ Lexicon[date_str].fmt = fmt
    THEN Lexicon[date_str].value
    ELSE NoTime

formats ==
    <<"%Y-%m-%d", "%Y-%m-%d %H:%M", "%Y-%m-%d %H:%M:%S", "%m-%d", "%m/%d", "%Y/%m/%d">>

\* helpers.parse_date: the first format that parses wins; NoTime stands for
\* the ValueError raised when none does
RECURSIVE parse_date_from(_, _)
parse_date_from(date_str, k) ==
    IF k > Len(formats) THEN NoTime
    ELSE IF strptime(date_str, formats[k]) # NoTime
         THEN strptime(date_str, formats[k])
         ELSE parse_date_from(date_str, k + 1)

parse_date(date_str) == parse_date_from(date_str, 1)

\* pendulum.parse(date_str, strict=False) on the strings the model passes to
\* it, which are ISO dates, words and "not-a-date": NoTime stands for the
\* exception it raises
pendulum_parse(date_str) ==
    IF date_str \in DOMAIN Lexicon /\ Lexicon[date_str].fmt \in {"%Y-%m-%d", "%Y-%m-%d %H:%M"}
    THEN Lexicon[date_str].value
    ELSE NoTime

\* date_utils.parse_datetime: pendulum first, then the relative vocabulary,
\* and None (NoTime) when both fail
\* (the strings "zh-..." stand for the Chinese words of the vocabulary)
parse_datetime(date_str, t) ==
    IF ~Truthy(date_str) THEN NoTime
    ELSE IF pendulum_parse(date_str) # NoTime THEN pendulum_parse(date_str)
    ELSE IF Lower(date_str) \in {"today", "zh-today"} THEN t
    ELSE IF Lower(date_str) \in {"tomorrow", "zh-tomorrow"} THEN t + DayTicks
    ELSE IF Lower(date_str) \in {"next week", "zh-next-week"} THEN t + 7 * DayTicks
    ELSE IF Lower(date_str) \in {"next month", "zh-next-month"} THEN t + 30 * DayTicks
    ELSE NoTime

\* date_utils.is_overdue: the due date alone, whatever the task's status
is_overdue(due_date, t) == due_date # NoTime /\ due_date < t

get_due_status_by_day(due_date, t) ==
    IF due_date = NoTime THEN ""
    ELSE IF date(due_date) < date(t) THEN "overdue"
    ELSE IF date(due_date) = date(t) THEN "due today"
    ELSE IF date(due_date) = date(t + DayTicks) THEN "due tomorrow"
    ELSE "upcoming"

\* date_utils.get_due_status; "upcoming" stands for diff_for_humans()
get_due_status(due_date, t) ==
    IF due_date = NoTime THEN ""
    ELSE IF due_date < t THEN "overdue"
    ELSE IF date(due_date) = date(t) THEN "due today"
    ELSE IF date(due_date) = date(t + DayTicks) THEN "due tomorrow"
    ELSE "upcoming"

(* --------------------------- enum parsing ----------------------------- *)

\* helpers.parse_priority: unknown strings fall back to MEDIUM
parse_priority(priority_str) ==
    LET s == Lower(priority_str) IN
    CASE s \in TaskPriority -> s
      [] s = "l" -> "low"
      [] s = "m" -> "medium"
      [] s = "h" -> "high"
      [] s = "u" -> "urgent"
      [] OTHER -> "medium"

\* helpers.parse_status: unknown strings fall back to PENDING
parse_status(status_str) ==
    LET s == Lower(status_str) IN
    CASE s \in TaskStatus -> s
      [] s = "p" -> PENDING
      [] s = "i" -> IN_PROGRESS
      [] s = "c" -> COMPLETED
      [] s = "x" -> CANCELLED
      [] OTHER -> PENDING

(* ------------------- the result of a command or tool ------------------ *)

\* op: the entry point; ok: FALSE when it reported an error (exit code 1,
\* an "error" payload, an error string or a propagated exception);
\* arg: its inputs; res: the ids it returned or touched, in order
Report(op, ok, arg, res) == [op |-> op, ok |-> ok, arg |-> arg, res |-> res]

(* ------------------ todo package: task commands ----------------------- *)

\* models.task.Task(...) with the column defaults, as add_task builds it
NewTask(title, description, priority, due_date, category_id, tag_ids, t) ==
    [title |-> title, description |-> description, status |-> PENDING,
     priority |-> priority, created_at |-> t, updated_at |-> NoTime,
     due_date |-> due_date, completed_at |-> NoTime,
     category_id |-> category_id, tags |-> tag_ids]

\* commands/task.py add_task; tag_names is the set of names in --tags
add_task(title, description, priority, category, tag_names, due_date) ==
    LET arg == [title |-> title, priority |-> priority, category |-> category,
                tag_names |-> tag_names, due_date |-> due_date]
        task_due_date == IF Truthy(due_date) THEN parse_date(due_date) ELSE NoTime
        db_category == IF Truthy(category) THEN ByName(categories, category) ELSE NoId
        db_tags == {ByName(tags, n) : n \in tag_names}
        failed == \/ Truthy(due_date) /\ task_due_date = NoTime
                  \/ Truthy(category) /\ db_category = NoId
                  \/ NoId \in db_tags
        id == NewId(tasks)
    IN  /\ id <= MaxId
        /\ IF failed
           THEN /\ tasks' = tasks
                /\ out' = Report("add_task", FALSE, arg, <<>>)
           ELSE /\ tasks' = Insert(tasks, id,
                        NewTask(title, description, parse_priority(priority),
                                task_due_date, db_category, db_tags, now))
                /\ out' = Report("add_task", TRUE, arg, <<id>>)
        /\ UNCHANGED <<categories, tags, svc, now, messages, turns, sessions>>

\* commands/task.py complete_task
complete_task(task_id) ==
    LET arg == [task_id |-> task_id] IN
    /\ IF task_id \notin Ids(tasks)
       THEN /\ tasks' = tasks
            /\ out' = Report("complete_task", FALSE, arg, <<>>)
       ELSE IF tasks[task_id].status = COMPLETED
       THEN /\ tasks' = tasks
            /\ out' = Report("complete_task", TRUE, arg, <<>>)
       ELSE /\ tasks' = [tasks EXCEPT ![task_id].status = COMPLETED,
                                      ![task_id].completed_at = now,
                                      ![task_id].updated_at = now]
            /\ out' = Report("complete_task", TRUE, arg, <<task_id>>)
    /\ UNCHANGED <<categories, tags, svc, now, messages, turns, sessions>>

\* commands/task.py delete_task; confirm is the answer to the prompt
delete_task(task_id, force, confirm) ==
    LET arg == [task_id |-> task_id, force |-> force] IN
    /\ IF task_id \notin Ids(tasks)
       THEN /\ tasks' = tasks
            /\ out' = Report("delete_task", FALSE, arg, <<>>)
       ELSE IF ~force /\ ~confirm
       THEN /\ tasks' = tasks
            /\ out' = Report("delete_task", TRUE, arg, <<>>)
       ELSE /\ tasks' = Delete(tasks, {task_id})
            /\ out' = Report("delete_task", TRUE, arg, <<task_id>>)
    /\ UNCHANGED <<categories, tags, svc, now, messages, turns, sessions>>

\* the store as a session with uncommitted changes would commit it
rollbackKeeps(committed, session) == session

\* db.rollback() in the except clause, and db.close() after an early return:
\* what the session changed and did not commit is dropped
rollback(committed, session) == committed

\* commands/task.py update_task.  The row is changed field by field and
\* committed at the end; an error (typer.Exit inside the try) rolls back.
\* task.category = None orphans the task when its Category is in the
\* session (Category.tasks cascades delete-orphan), which is the case only
\* when --category loaded one: the flush then deletes the task, and showing
\* the deleted task fails.
update_task(task_id, title, description, priority, status, category, due_date, clear_due, clear_category) ==
    LET arg == [task_id |-> task_id, title |-> title, description |-> description,
                priority |-> priority, status |-> status, category |-> category,
                due_date |-> due_date, clear_due |-> clear_due,
                clear_category |-> clear_category]
        t0 == tasks[task_id]
        t1 == IF Truthy(title) THEN [t0 EXCEPT !.title = title] ELSE t0
        t2 == IF Truthy(description) THEN [t1 EXCEPT !.description = description] ELSE t1
        t3 == IF Truthy(priority)
              THEN [t2 EXCEPT !.priority = parse_priority(priority)] ELSE t2
        t4 == IF Truthy(status)
              THEN [t3 EXCEPT !.status = parse_status(status),
                              !.completed_at =
                                  IF parse_status(status) = COMPLETED /\ @ = NoTime
                                  THEN now ELSE @]
              ELSE t3
        db_category == IF Truthy(category) THEN ByName(categories, category) ELSE NoId
        t5 == IF Truthy(category) THEN [t4 EXCEPT !.category_id = db_category] ELSE t4
        t6 == IF clear_category THEN [t5 EXCEPT !.category_id = NoId] ELSE t5
        new_due == IF Truthy(due_date) THEN parse_date(due_date) ELSE NoTime
        t7 == IF Truthy(due_date) THEN [t6 EXCEPT !.due_date = new_due] ELSE t6
        t8 == IF clear_due THEN [t7 EXCEPT !.due_date = NoTime] ELSE t7
        updated == \/ Truthy(title) \/ Truthy(description) \/ Truthy(priority)
                   \/ Truthy(status) \/ Truthy(category) \/ clear_category
                   \/ Truthy(due_date) \/ clear_due
        failed == \/ Truthy(category) /\ db_category = NoId
                  \/ Truthy(due_date) /\ new_due = NoTime
        orphaned == Truthy(category) /\ clear_category
        \* the task object where the exception is raised
        reached == IF Truthy(category) /\ db_category = NoId THEN t4 ELSE t6
    IN  /\ IF task_id \notin Ids(tasks)
           THEN /\ tasks' = tasks
                /\ out' = Report("update_task", FALSE, arg, <<>>)
           ELSE IF failed
           THEN /\ tasks' = rollback(tasks, [tasks EXCEPT ![task_id] = reached])
                /\ out' = Report("update_task", FALSE, arg, <<>>)
           ELSE IF ~updated
           THEN /\ tasks' = tasks
                /\ out' = Report("update_task", TRUE, arg, <<>>)
           ELSE IF orphaned
           THEN /\ tasks' = Delete(tasks, {task_id})
                /\ out' = Report("update_task", FALSE, arg, <<task_id>>)
           ELSE /\ tasks' = [tasks EXCEPT ![task_id] = [t8 EXCEPT !.updated_at = now]]
                /\ out' = Report("update_task", TRUE, arg, <<task_id>>)
        /\ UNCHANGED <<categories, tags, svc, now, messages, turns, sessions>>

(* ------------------ todo package: import ------------------------------ *)

\* datetime.fromisoformat on the strings of the model; NoTime stands for
\* the ValueError it raises
fromisoformat(date_str) ==
    IF date_str \in DOMAIN Lexicon THEN Lexicon[date_str].value ELSE NoTime

\* commands/stats.py import_from_json, one item of the file: the session
\* does not autoflush, so the existence query sees only committed rows;
\* a due date that does not parse, an unknown category and unknown tags
\* are dropped silently
ImportItem(table, committed, item, skip_existing, t) ==
    IF ~Truthy(item.title) THEN table
    ELSE IF skip_existing /\ \E i \in Ids(committed) : committed[i].title = item.title
    THEN table
    ELSE Insert(table, NewId(table),
             [NewTask(item.title, item.description, parse_priority(item.priority),
                      IF Truthy(item.due_date) THEN fromisoformat(item.due_date)
                      ELSE NoTime,
                      IF Truthy(item.category) THEN ByName(categories, item.category)
                      ELSE NoId,
                      {ByName(tags, n) : n \in item.tags} \ {NoId}, t)
                 EXCEPT !.status = parse_status(item.status)])

RECURSIVE ImportItems(_, _, _, _, _)
ImportItems(table, committed, items, skip_existing, t) ==
    IF items = <<>> THEN table
    ELSE ImportItems(ImportItem(table, committed, Head(items), skip_existing, t),
                     committed, Tail(items), skip_existing, t)

\* commands/stats.py import_data with a JSON file of items
import_data(items, dry_run, skip_existing) ==
    LET arg == [items |-> items, dry_run |-> dry_run, skip_existing |-> skip_existing]
        table == ImportItems(tasks, tasks, items, skip_existing, now)
    IN  /\ \A i \in Ids(table) : i <= MaxId
        /\ tasks' = IF dry_run THEN tasks ELSE table
        /\ out' = Report("import", TRUE, arg, <<>>)
        /\ UNCHANGED <<categories, tags, svc, now, messages, turns, sessions>>

(* ------------------ todo package: Langchain task tools ---------------- *)

\* langchain_tools.py: priority_map.get(priority.lower()), None (NoneStr)
\* for an unknown string
lc_priority(priority) ==
    IF Lower(priority) \in TaskPriority THEN Lower(priority) ELSE NoneStr

\* langchain_tools.py: status_map.get(status.lower())
lc_status(status) ==
    IF Lower(status) \in TaskStatus THEN Lower(status) ELSE NoneStr

\* len(due_date) == 10 on the strings of the model
HasLen10(date_str) == date_str \in {"2024-01-02", "not-a-date"}

\* langchain_tools.py add_task/update_task: the format is picked by length
lc_parse_due(due_date) ==
    IF HasLen10(due_date) THEN strptime(due_date, "%Y-%m-%d")
    ELSE strptime(due_date, "%Y-%m-%d %H:%M")

\* langchain_tools.py add_task
lc_add_task(title, description, priority, category, tag_names, due_date) ==
    LET arg == [title |-> title, priority |-> priority, category |-> category,
                tag_names |-> tag_names, due_date |-> due_date]
        task_priority == IF lc_priority(priority) = NoneStr THEN "medium"
                         ELSE lc_priority(priority)
        parsed_due_date == IF Truthy(due_date) THEN lc_parse_due(due_date) ELSE NoTime
        db_category == IF Truthy(category) THEN ByName(categories, category) ELSE NoId
        db_tags == {ByName(tags, n) : n \in tag_names}
        failed == \/ Truthy(due_date) /\ parsed_due_date = NoTime
                  \/ Truthy(category) /\ db_category = NoId
                  \/ NoId \in db_tags
        id == NewId(tasks)
    IN  /\ id <= MaxId
        /\ IF failed
           THEN /\ tasks' = tasks
                /\ out' = Report("lc_add_task", FALSE, arg, <<>>)
           ELSE /\ tasks' = Insert(tasks, id,
                        NewTask(title, description, task_priority,
                                parsed_due_date, db_category, db_tags, now))
                /\ out' = Report("lc_add_task", TRUE, arg, <<id>>)
        /\ UNCHANGED <<categories, tags, svc, now, messages, turns, sessions>>

\* langchain_tools.py update_task: an early error return commits nothing;
\* unknown priority and status strings are skipped; the category is set
\* through the foreign key column; updated_at follows an UPDATE
lc_update_task(task_id, title, description, priority, status, category, due_date, clear_category) ==
    LET arg == [task_id |-> task_id, title |-> title, description |-> description,
                priority |-> priority, status |-> status, category |-> category,
                due_date |-> due_date, clear_category |-> clear_category]
        t0 == tasks[task_id]
        t1 == IF Truthy(title) THEN [t0 EXCEPT !.title = title] ELSE t0
        t2 == IF description # NoneStr THEN [t1 EXCEPT !.description = description] ELSE t1
        setp == Truthy(priority) /\ lc_priority(priority) # NoneStr
        t3 == IF setp THEN [t2 EXCEPT !.priority = lc_priority(priority)] ELSE t2
        sets == Truthy(status) /\ lc_status(status) # NoneStr
        t4 == IF sets
              THEN [t3 EXCEPT !.status = lc_status(status),
                              !.completed_at =
                                  IF lc_status(status) = COMPLETED /\ @ = NoTime
                                  THEN now ELSE @]
              ELSE t3
        db_category == IF Truthy(category) THEN ByName(categories, category) ELSE NoId
        t5 == IF Truthy(category) THEN [t4 EXCEPT !.category_id = db_category] ELSE t4
        t6 == IF clear_category THEN [t5 EXCEPT !.category_id = NoId] ELSE t5
        new_due == IF Truthy(due_date) THEN lc_parse_due(due_date) ELSE NoTime
        t7 == IF Truthy(due_date) THEN [t6 EXCEPT !.due_date = new_due] ELSE t6
        updated == \/ Truthy(title) \/ description # NoneStr \/ setp \/ sets
                   \/ Truthy(category) \/ clear_category \/ Truthy(due_date)
        failed == \/ Truthy(category) /\ db_category = NoId
                  \/ Truthy(due_date) /\ new_due = NoTime
        \* the task object at the early return
        reached == IF Truthy(category) /\ db_category = NoId THEN t4
                   ELSE IF Truthy(due_date) /\ new_due = NoTime THEN t6 ELSE t7
    IN  /\ IF task_id \notin Ids(tasks)
           THEN /\ tasks' = tasks
                /\ out' = Report("lc_update_task", FALSE, arg, <<>>)
           ELSE IF failed \/ ~updated
           THEN /\ tasks' = rollback(tasks, [tasks EXCEPT ![task_id] = reached])
                /\ out' = Report("lc_update_task", FALSE, arg, <<>>)
           ELSE /\ tasks' = [tasks EXCEPT ![task_id] =
                                IF t7 = t0 THEN t0 ELSE [t7 EXCEPT !.updated_at = now]]
                /\ out' = Report("lc_update_task", TRUE, arg, <<task_id>>)
        /\ UNCHANGED <<categories, tags, svc, now, messages, turns, sessions>>

\* langchain_tools.py complete_task
lc_complete_task(task_id) ==
    LET arg == [task_id |-> task_id] IN
    /\ IF task_id \notin Ids(tasks)
       THEN /\ tasks' = tasks
            /\ out' = Report("lc_complete_task", FALSE, arg, <<>>)
       ELSE IF tasks[task_id].status = COMPLETED
       THEN /\ tasks' = tasks
            /\ out' = Report("lc_complete_task", TRUE, arg, <<>>)
       ELSE /\ tasks' = [tasks EXCEPT ![task_id].status = COMPLETED,
                                      ![task_id].completed_at = now,
                                      ![task_id].updated_at = now]
            /\ out' = Report("lc_complete_task", TRUE, arg, <<task_id>>)
    /\ UNCHANGED <<categories, tags, svc, now, messages, turns, sessions>>

\* langchain_tools.py delete_task
lc_delete_task(task_id) ==
    LET arg == [task_id |-> task_id] IN
    /\ IF task_id \notin Ids(tasks)
       THEN /\ tasks' = tasks
            /\ out' = Report("lc_delete_task", FALSE, arg, <<>>)
       ELSE /\ tasks' = Delete(tasks, {task_id})
            /\ out' = Report("lc_delete_task", TRUE, arg, <<task_id>>)
    /\ UNCHANGED <<categories, tags, svc, now, messages, turns, sessions>>

(* ------------------ todo package: categories and tags ----------------- *)

\* The colour strings the model passes: color.startswith('#'), f"#{color}"
\* and len(color) == 7 on them
StartsWithHash(color) == color \in {"#FF5733", "#GGGGGG", "#FFF"}

WithHash(color) ==
    CASE color = "FF5733" -> "#FF5733"
      [] color = "red" -> "#red"
      [] OTHER -> color

HasLen7(color) == color \in {"#FF5733", "#GGGGGG"}

\* add_category/add_tag lines 36-41: the colour stored, or "invalid"
CheckedColor(color) ==
    LET c == IF Truthy(color) /\ ~StartsWithHash(color) THEN WithHash(color) ELSE color
    IN  IF Truthy(c) /\ ~HasLen7(c) THEN "invalid" ELSE c

NameTakenNever(table, name) == FALSE

\* add: existing = db.query(M).filter(M.name == name).first(); if existing
NameTaken(table, name) == ByName(table, name) # NoId

\* update: existing and existing.id != entity.id
RenameClash(table, id, new_name) ==
    ByName(table, new_name) # NoId /\ ByName(table, new_name) # id

category_task_count_none(id) == 0

\* Category.task_count: the tasks that reference the category
category_task_count(id) == Cardinality({t \in Ids(tasks) : tasks[t].category_id = id})

\* Tag.task_count: the tasks that carry the tag
tag_task_count(id) == Cardinality({t \in Ids(tasks) : id \in tasks[t].tags})

DeleteBlockedNever(count, force) == FALSE

\* delete: task_count > 0 and not force
DeleteBlocked(count, force) == count > 0 /\ ~force

\* the table after add_category/add_tag, or the table itself when rejected
Added(table, name, description, color) ==
    IF NameTaken(table, name) \/ CheckedColor(color) = "invalid"
    THEN table
    ELSE Insert(table, NewId(table),
                [name |-> name, description |-> description,
                 color |-> CheckedColor(color)])

\* update_category/update_tag: how it ended ("error", "nothing", "updated")
\* and the table after it
Renamed(table, name, new_name, description, color) ==
    LET id == ByName(table, name)
        r0 == table[id]
        r1 == IF Truthy(new_name) THEN [r0 EXCEPT !.name = new_name] ELSE r0
        r2 == IF description # NoneStr THEN [r1 EXCEPT !.description = description] ELSE r1
        r3 == IF Truthy(color) THEN [r2 EXCEPT !.color = CheckedColor(color)] ELSE r2
    IN  IF id = NoId THEN [end |-> "error", table |-> table]
        ELSE IF Truthy(new_name) /\ RenameClash(table, id, new_name)
        THEN [end |-> "error", table |-> table]
        ELSE IF Truthy(color) /\ CheckedColor(color) = "invalid"
        THEN [end |-> "error", table |-> table]
        ELSE IF ~(Truthy(new_name) \/ description # NoneStr \/ Truthy(color))
        THEN [end |-> "nothing", table |-> table]
        ELSE [end |-> "updated", table |-> [table EXCEPT ![id] = r3]]

\* commands/category.py add_category
add_category(name, description, color) ==
    LET arg == [name |-> name, color |-> color] IN
    /\ NewId(categories) <= MaxId
    /\ categories' = Added(categories, name, description, color)
    /\ out' = Report("add_category", categories' # categories, arg, <<>>)
    /\ UNCHANGED <<tasks, tags, svc, now, messages, turns, sessions>>

\* commands/tag.py add_tag
add_tag(name, description, color) ==
    LET arg == [name |-> name, color |-> color] IN
    /\ NewId(tags) <= MaxId
    /\ tags' = Added(tags, name, description, color)
    /\ out' = Report("add_tag", tags' # tags, arg, <<>>)
    /\ UNCHANGED <<tasks, categories, svc, now, messages, turns, sessions>>

\* commands/category.py update_category; "No changes specified" is not an error
update_category(name, new_name, description, color) ==
    LET arg == [name |-> name, new_name |-> new_name, color |-> color]
        r == Renamed(categories, name, new_name, description, color)
    IN  /\ categories' = r.table
        /\ out' = Report("update_category", r.end # "error", arg, <<>>)
        /\ UNCHANGED <<tasks, tags, svc, now, messages, turns, sessions>>

\* commands/tag.py update_tag
update_tag(name, new_name, description, color) ==
    LET arg == [name |-> name, new_name |-> new_name, color |-> color]
        r == Renamed(tags, name, new_name, description, color)
    IN  /\ tags' = r.table
        /\ out' = Report("update_tag", r.end # "error", arg, <<>>)
        /\ UNCHANGED <<tasks, categories, svc, now, messages, turns, sessions>>

\* commands/category.py delete_category; confirm is the answer to the
\* prompt.  Category.tasks cascades "all, delete-orphan": deleting the
\* category deletes its tasks.
delete_category(name, force, confirm) ==
    LET arg == [name |-> name, force |-> force]
        id == ByName(categories, name)
    IN  /\ IF id = NoId \/ DeleteBlocked(category_task_count(id), force)
           THEN /\ UNCHANGED <<categories, tasks>>
                /\ out' = Report("delete_category", FALSE, arg, <<>>)
           ELSE IF ~force /\ ~confirm
           THEN /\ UNCHANGED <<categories, tasks>>
                /\ out' = Report("delete_category", TRUE, arg, <<>>)
           ELSE /\ categories' = Delete(categories, {id})
                /\ tasks' = Delete(tasks, {t \in Ids(tasks) : tasks[t].category_id = id})
                /\ out' = Report("delete_category", TRUE, arg, <<id>>)
        /\ UNCHANGED <<tags, svc, now, messages, turns, sessions>>

\* commands/tag.py delete_tag: deleting the tag deletes its task_tags rows
delete_tag(name, force, confirm) ==
    LET arg == [name |-> name, force |-> force]
        id == ByName(tags, name)
    IN  /\ IF id = NoId \/ DeleteBlocked(tag_task_count(id), force)
           THEN /\ UNCHANGED <<tags, tasks>>
                /\ out' = Report("delete_tag", FALSE, arg, <<>>)
           ELSE IF ~force /\ ~confirm
           THEN /\ UNCHANGED <<tags, tasks>>
                /\ out' = Report("delete_tag", TRUE, arg, <<>>)
           ELSE /\ tags' = Delete(tags, {id})
                /\ tasks' = [t \in Ids(tasks) |->
                                [tasks[t] EXCEPT !.tags = @ \ {id}]]
                /\ out' = Report("delete_tag", TRUE, arg, <<id>>)
        /\ UNCHANGED <<categories, svc, now, messages, turns, sessions>>

\* langchain_tools.py delete_category: no force; a referenced category stays
lc_delete_category(name) ==
    LET arg == [name |-> name, force |-> FALSE]
        id == ByName(categories, name)
    IN  /\ IF id = NoId \/ category_task_count(id) > 0
           THEN /\ categories' = categories
                /\ out' = Report("lc_delete_category", FALSE, arg, <<>>)
           ELSE /\ categories' = Delete(categories, {id})
                /\ out' = Report("lc_delete_category", TRUE, arg, <<id>>)
        /\ UNCHANGED <<tasks, tags, svc, now, messages, turns, sessions>>

\* langchain_tools.py delete_tag
lc_delete_tag(name) ==
    LET arg == [name |-> name, force |-> FALSE]
        id == ByName(tags, name)
    IN  /\ IF id = NoId \/ tag_task_count(id) > 0
           THEN /\ tags' = tags
                /\ out' = Report("lc_delete_tag", FALSE, arg, <<>>)
           ELSE /\ tags' = Delete(tags, {id})
                /\ out' = Report("lc_delete_tag", TRUE, arg, <<id>>)
        /\ UNCHANGED <<tasks, categories, svc, now, messages, turns, sessions>>

\* langchain_tools.py add_category
lc_add_category(name, description, color) ==
    LET arg == [name |-> name, color |-> color] IN
    /\ NewId(categories) <= MaxId
    /\ categories' = Added(categories, name, description, color)
    /\ out' = Report("lc_add_category", categories' # categories, arg, <<>>)
    /\ UNCHANGED <<tasks, tags, svc, now, messages, turns, sessions>>

\* langchain_tools.py add_tag
lc_add_tag(name, description, color) ==
    LET arg == [name |-> name, color |-> color] IN
    /\ NewId(tags) <= MaxId
    /\ tags' = Added(tags, name, description, color)
    /\ out' = Report("lc_add_tag", tags' # tags, arg, <<>>)
    /\ UNCHANGED <<tasks, categories, svc, now, messages, turns, sessions>>

\* langchain_tools.py update_category; "No changes specified" is an error
lc_update_category(name, new_name, description, color) ==
    LET arg == [name |-> name, new_name |-> new_name, color |-> color]
        r == Renamed(categories, name, new_name, description, color)
    IN  /\ categories' = r.table
        /\ out' = Report("lc_update_category", r.end = "updated", arg, <<>>)
        /\ UNCHANGED <<tasks, tags, svc, now, messages, turns, sessions>>

\* langchain_tools.py update_tag
lc_update_tag(name, new_name, description, color) ==
    LET arg == [name |-> name, new_name |-> new_name, color |-> color]
        r == Renamed(tags, name, new_name, description, color)
    IN  /\ tags' = r.table
        /\ out' = Report("lc_update_tag", r.end = "updated", arg, <<>>)
        /\ UNCHANGED <<tasks, categories, svc, now, messages, turns, sessions>>

(* ------------------ todo package: listing and search ------------------ *)

\* the sequences that list every element of a finite set once
Perms(S) ==
    {s \in [1..Cardinality(S) -> S] : \A i, j \in DOMAIN s : s[i] = s[j] => i = j}

\* ORDER BY: the orders in which the database may return the rows S under a
\* sort key (key[i] for row i); rows with equal keys come in any order
OrderBy(S, key, descending) ==
    {s \in Perms(S) : \A i, j \in DOMAIN s : i < j =>
        IF descending THEN key[s[i]] >= key[s[j]] ELSE key[s[i]] <= key[s[j]]}

\* LIMIT n, and tasks[:n]
Take(s, n) == SubSeq(s, 1, IF n < Len(s) THEN n ELSE Len(s))

\* column.ilike(f"%{query}%") and column.contains(query), which SQLite
\* evaluates with its case-insensitive LIKE; a NULL column matches nothing
Like(text, query) ==
    /\ text # NoneStr
    /\ \/ Lower(query) = Lower(text)
       \/ <<Lower(query), Lower(text)>> \in {<<"milk", "buy milk">>, <<"buy", "buy milk">>}

\* query.join(Category).filter(Category.name == category)
InCategory(row, category) ==
    /\ row.category_id \in Ids(categories)
    /\ categories[row.category_id].name = category

\* query.join(Task.tags).filter(Tag.name == tag)
HasTag(row, tag) == \E t \in row.tags \cap Ids(tags) : tags[t].name = tag

\* the filter both list commands and tree_view put on the status
StatusShown(row, status, all_tasks) ==
    IF Truthy(status) THEN row.status = parse_status(status)
    ELSE all_tasks \/ row.status \in {PENDING, IN_PROGRESS}

\* commands/task.py list_tasks
list_tasks(status, category, tag, priority, limit, all_tasks) ==
    LET arg == [status |-> status, category |-> category, tag |-> tag,
                priority |-> priority, limit |-> limit, all_tasks |-> all_tasks]
        found == {i \in Ids(tasks) :
                    /\ StatusShown(tasks[i], status, all_tasks)
                    /\ Truthy(category) => InCategory(tasks[i], category)
                    /\ Truthy(tag) => HasTag(tasks[i], tag)
                    /\ Truthy(priority) => tasks[i].priority = parse_priority(priority)}
        created_at == [i \in Ids(tasks) |-> tasks[i].created_at]
    IN  /\ \E s \in OrderBy(found, created_at, TRUE) :
              out' = Report("list_tasks", TRUE, arg, Take(s, limit))
        /\ UNCHANGED <<tasks, categories, tags, svc, now, messages, turns, sessions>>

\* commands/task.py tree_view: no --all option
tree_view(group_by, status, limit) ==
    LET arg == [status |-> status, limit |-> limit, all_tasks |-> FALSE]
        found == {i \in Ids(tasks) : StatusShown(tasks[i], status, FALSE)}
        created_at == [i \in Ids(tasks) |-> tasks[i].created_at]
    IN  /\ \E s \in OrderBy(found, created_at, TRUE) :
              out' = Report("tree_view", TRUE, arg, Take(s, limit))
        /\ UNCHANGED <<tasks, categories, tags, svc, now, messages, turns, sessions>>

\* langchain_tools.py list_tasks: a status or priority that is not in the
\* map filters nothing, and a status that is given switches the default
\* filter off
lc_list_tasks(status, category, tag, priority, limit, all_tasks) ==
    LET arg == [status |-> status, category |-> category, tag |-> tag,
                priority |-> priority, limit |-> limit, all_tasks |-> all_tasks]
        found == {i \in Ids(tasks) :
                    /\ IF Truthy(status)
                       THEN lc_status(status) # NoneStr
                                => tasks[i].status = lc_status(status)
                       ELSE all_tasks \/ tasks[i].status \in {PENDING, IN_PROGRESS}
                    /\ Truthy(category) => InCategory(tasks[i], category)
                    /\ Truthy(tag) => HasTag(tasks[i], tag)
                    /\ (Truthy(priority) /\ lc_priority(priority) # NoneStr)
                          => tasks[i].priority = lc_priority(priority)}
        created_at == [i \in Ids(tasks) |-> tasks[i].created_at]
    IN  /\ \E s \in OrderBy(found, created_at, TRUE) :
              out' = Report("lc_list_tasks", TRUE, arg, Take(s, limit))
        /\ UNCHANGED <<tasks, categories, tags, svc, now, messages, turns, sessions>>

\* the order of the priority column, an Enum stored by member name
PriorityOrder(priority) ==
    CASE priority = "high" -> 1
      [] priority = "low" -> 2
      [] priority = "medium" -> 3
      [] priority = "urgent" -> 4

\* the order of the titles the model stores
TitleOrder(title) == IF title = "a" THEN 1 ELSE 2

\* search_tasks: sort_options.get(sort_by, Task.created_at); NULL sorts lowest
SortKey(row, sort_by) ==
    CASE sort_by = "updated" -> row.updated_at
      [] sort_by = "due" -> row.due_date
      [] sort_by = "priority" -> PriorityOrder(row.priority)
      [] sort_by = "title" -> TitleOrder(row.title)
      [] OTHER -> row.created_at

CategoryFilterFlagFirst(row, category, no_category) ==
    IF no_category THEN row.category_id = NoId
    ELSE Truthy(category) => InCategory(row, category)

\* search_tasks: if category: ... elif no_category: ...
CategoryFilter(row, category, no_category) ==
    IF Truthy(category) THEN InCategory(row, category)
    ELSE no_category => row.category_id = NoId

\* search_tasks: if tag: ... elif no_tags: ...
TagFilter(row, tag, no_tags) ==
    IF Truthy(tag) THEN HasTag(row, tag)
    ELSE no_tags => row.tags = {}

StatusFilterHidesFinished(row, status) ==
    IF Truthy(status) THEN row.status = parse_status(status)
    ELSE row.status \in {PENDING, IN_PROGRESS}

\* search_tasks: if status: ...; without --status no task is left out
StatusFilter(row, status) == Truthy(status) => row.status = parse_status(status)

DateBoundsExclusive(row, o) ==
    /\ Truthy(o.due_before) =>
          (row.due_date # NoTime /\ row.due_date < parse_date(o.due_before))
    /\ Truthy(o.due_after) =>
          (row.due_date # NoTime /\ row.due_date > parse_date(o.due_after))
    /\ Truthy(o.created_before) => row.created_at < parse_date(o.created_before)
    /\ Truthy(o.created_after) => row.created_at > parse_date(o.created_after)

\* search_tasks: the --due-before, --due-after, --created-before and
\* --created-after filters; a comparison with a NULL due date is not true
DateBounds(row, o) ==
    /\ Truthy(o.due_before) =>
          (row.due_date # NoTime /\ row.due_date <= parse_date(o.due_before))
    /\ Truthy(o.due_after) =>
          (row.due_date # NoTime /\ row.due_date >= parse_date(o.due_after))
    /\ Truthy(o.created_before) => row.created_at <= parse_date(o.created_before)
    /\ Truthy(o.created_after) => row.created_at >= parse_date(o.created_after)

\* the filters search_tasks puts on the query; o holds its options
SearchFilter(row, o) ==
    /\ Truthy(o.query) => (Like(row.title, o.query) \/ Like(row.description, o.query))
    /\ StatusFilter(row, o.status)
    /\ CategoryFilter(row, o.category, o.no_category)
    /\ TagFilter(row, o.tag, o.no_tags)
    /\ Truthy(o.priority) => row.priority = parse_priority(o.priority)
    /\ DateBounds(row, o)
    /\ o.overdue =>
          (row.due_date # NoTime /\ row.due_date < now /\ row.status # COMPLETED)

\* commands/task.py search_tasks; o is the record of its options
search_tasks(o) ==
    LET bad == \E d \in {o.due_before, o.due_after, o.created_before, o.created_after} :
                   Truthy(d) /\ parse_date(d) = NoTime
        found == {i \in Ids(tasks) : SearchFilter(tasks[i], o)}
        sort_column == [i \in Ids(tasks) |-> SortKey(tasks[i], o.sort_by)]
    IN  /\ IF bad
           THEN out' = Report("search_tasks", FALSE, o, <<>>)
           ELSE \E s \in OrderBy(found, sort_column, ~o.reverse) :
                    out' = Report("search_tasks", TRUE, o, Take(s, o.limit))
        /\ UNCHANGED <<tasks, categories, tags, svc, now, messages, turns, sessions>>

\* langchain_tools.py search_tasks: only the keyword reaches the query
lc_search_tasks(o) ==
    LET found == {i \in Ids(tasks) :
                    Truthy(o.query) => (Like(tasks[i].title, o.query)
                                        \/ Like(tasks[i].description, o.query))}
        created_at == [i \in Ids(tasks) |-> tasks[i].created_at]
    IN  /\ \E s \in OrderBy(found, created_at, TRUE) :
              out' = Report("lc_search_tasks", TRUE, o, Take(s, o.limit))
        /\ UNCHANGED <<tasks, categories, tags, svc, now, messages, turns, sessions>>

(* ------------------ src package: TaskService -------------------------- *)

\* src/models/task.py Task(...) with the column defaults (the JSON tags
\* column, which nothing reads, is left out)
NewSvcTask(title, description, priority, due_date, t) ==
    [title |-> title, description |-> description, status |-> PENDING,
     priority |-> priority, created_at |-> t, updated_at |-> t,
     start_time |-> NoTime, due_date |-> due_date, completed_at |-> NoTime]

\* TaskService.create_task: a due date that does not parse is None
create_task(title, description, priority, due_date) ==
    LET arg == [title |-> title, priority |-> priority, due_date |-> due_date]
        parsed_due_date == IF Truthy(due_date) THEN parse_datetime(due_date, now)
                           ELSE NoTime
        id == NewId(svc)
    IN  /\ id <= MaxId
        /\ svc' = Insert(svc, id,
                      NewSvcTask(title, description, priority, parsed_due_date, now))
        /\ out' = Report("create_task", TRUE, arg, <<id>>)
        /\ UNCHANGED <<tasks, categories, tags, now, messages, turns, sessions>>

\* TodoToolkit.add_todo_task: priority and status are validated, then
\* create_task is called with the keywords title, description, priority,
\* status, due_date and tags.  create_task declares title, description,
\* priority, due_date and tags and takes no **kwargs: another keyword raises
\* TypeError before its body runs.  Every exception becomes a failure text.
add_todo_task(title, description, priority, status, due_date) ==
    LET arg == [title |-> title, priority |-> priority, status |-> status]
        keywords == {"title", "description", "priority", "status", "due_date", "tags"}
        parameters == {"title", "description", "priority", "due_date", "tags"}
        valid == Lower(priority) \in SvcTaskPriority /\ Lower(status) \in TaskStatus
        parsed_due_date == IF Truthy(due_date) THEN parse_datetime(due_date, now)
                           ELSE NoTime
    IN  /\ NewId(svc) <= MaxId
        /\ IF valid /\ keywords \subseteq parameters
           THEN /\ svc' = Insert(svc, NewId(svc),
                                 NewSvcTask(title, description, Lower(priority),
                                            parsed_due_date, now))
                /\ out' = Report("add_todo_task", TRUE, arg, <<NewId(svc)>>)
           ELSE /\ svc' = svc
                /\ out' = Report("add_todo_task", FALSE, arg, <<>>)
        /\ UNCHANGED <<tasks, categories, tags, now, messages, turns, sessions>>

\* cli/task_commands.py add_task: typer has converted priority and status to
\* the enums; create_task is called with the keywords title, description,
\* priority, status and due_date, and the exception is reported as a failure
src_cli_add_task(title, description, priority, status, due_date) ==
    LET arg == [title |-> title, priority |-> priority, status |-> status]
        keywords == {"title", "description", "priority", "status", "due_date"}
        parameters == {"title", "description", "priority", "due_date", "tags"}
        parsed_due_date == IF Truthy(due_date) THEN parse_datetime(due_date, now)
                           ELSE NoTime
    IN  /\ NewId(svc) <= MaxId
        /\ IF keywords \subseteq parameters
           THEN /\ svc' = Insert(svc, NewId(svc),
                                 NewSvcTask(title, description, priority,
                                            parsed_due_date, now))
                /\ out' = Report("src_cli_add_task", TRUE, arg, <<NewId(svc)>>)
           ELSE /\ svc' = svc
                /\ out' = Report("src_cli_add_task", FALSE, arg, <<>>)
        /\ UNCHANGED <<tasks, categories, tags, now, messages, turns, sessions>>

\* TaskService.update_task, the row after the setattr loop: kwargs is a
\* function from field names to values; a due_date is given as a string
SvcUpdated(row, kwargs, t) ==
    LET set == [f \in DOMAIN row |->
                   IF f \notin DOMAIN kwargs THEN row[f]
                   ELSE IF f = "due_date" THEN parse_datetime(kwargs[f], t)
                   ELSE kwargs[f]]
    IN  IF set = row THEN row ELSE [set EXCEPT !.updated_at = t]

\* TaskService.update_task as the entry point op reaches it: None (a
\* failure report) for an unknown id
svc_update_task(op, task_id, kwargs) ==
    LET arg == [task_id |-> task_id, kwargs |-> kwargs] IN
    /\ IF task_id \notin Ids(svc)
       THEN /\ svc' = svc
            /\ out' = Report(op, FALSE, arg, <<>>)
       ELSE /\ svc' = [svc EXCEPT ![task_id] = SvcUpdated(@, kwargs, now)]
            /\ out' = Report(op, TRUE, arg, <<task_id>>)
    /\ UNCHANGED <<tasks, categories, tags, now, messages, turns, sessions>>

\* TaskService.complete_task, called by src/cli/task_commands.py complete_task
svc_complete_task(task_id) ==
    svc_update_task("svc_complete_task", task_id,
                    [status |-> COMPLETED, completed_at |-> now])

\* TaskService.start_task, called by src/cli/task_commands.py start_task
svc_start_task(task_id) ==
    svc_update_task("svc_start_task", task_id,
                    [status |-> IN_PROGRESS, start_time |-> now])

\* src/cli/task_commands.py update_task: the options given make the kwargs
SrcCliUpdates(title, description, priority, due_date, status) ==
    LET given == [title |-> title, description |-> description,
                  priority |-> priority, due_date |-> due_date, status |-> status]
    IN  [f \in {g \in DOMAIN given : Truthy(given[g])} |-> given[f]]

src_cli_update_task(task_id, title, description, priority, due_date, status) ==
    LET updates == SrcCliUpdates(title, description, priority, due_date, status) IN
    IF DOMAIN updates = {}
    THEN /\ out' = Report("svc_update_task", FALSE,
                          [task_id |-> task_id, kwargs |-> updates], <<>>)
         /\ UNCHANGED <<tasks, categories, tags, svc, now, messages, turns, sessions>>
    ELSE svc_update_task("svc_update_task", task_id, updates)

\* tools/todo.py complete_todo_task: an already completed task is left alone
complete_todo_task(task_id) ==
    IF task_id \in Ids(svc) /\ svc[task_id].status = COMPLETED
    THEN /\ out' = Report("complete_todo_task", TRUE, [task_id |-> task_id], <<>>)
         /\ UNCHANGED <<tasks, categories, tags, svc, now, messages, turns, sessions>>
    ELSE svc_update_task("complete_todo_task", task_id,
                         [status |-> COMPLETED, completed_at |-> now])

\* TaskService.delete_task
svc_delete_task(task_id) ==
    LET arg == [task_id |-> task_id] IN
    /\ IF task_id \notin Ids(svc)
       THEN /\ svc' = svc
            /\ out' = Report("svc_delete_task", FALSE, arg, <<>>)
       ELSE /\ svc' = Delete(svc, {task_id})
            /\ out' = Report("svc_delete_task", TRUE, arg, <<task_id>>)
    /\ UNCHANGED <<tasks, categories, tags, now, messages, turns, sessions>>

\* Optional[int] limit: None and 0 are both false in `if limit:`
NoLimit == 0

\* TaskService.list_tasks: the lists it may return
svc_list_tasks(status, priority, limit) ==
    LET found == {i \in Ids(svc) :
                    /\ Truthy(status) => svc[i].status = status
                    /\ Truthy(priority) => svc[i].priority = priority}
        created_at == [i \in Ids(svc) |-> svc[i].created_at]
    IN  {IF limit # NoLimit THEN Take(s, limit) ELSE s :
            s \in OrderBy(found, created_at, TRUE)}

\* [t for t in tasks if t.status != TaskStatus.COMPLETED]
NotCompleted(i) == svc[i].status # COMPLETED

\* src/cli/task_commands.py list_tasks; typer turns --status and --priority
\* into enum members and refuses any other string before the command runs
src_cli_list_tasks(status, priority, limit, all_tasks) ==
    LET arg == [status |-> status, priority |-> priority, limit |-> limit,
                all_tasks |-> all_tasks]
        refused == \/ status \notin TaskStatus \cup {NoneStr}
                   \/ priority \notin SvcTaskPriority \cup {NoneStr}
        lists == IF all_tasks THEN svc_list_tasks(NoneStr, NoneStr, limit)
                 ELSE IF status = NoneStr
                 THEN {SelectSeq(s, NotCompleted) :
                          s \in svc_list_tasks(NoneStr, NoneStr, limit)}
                 ELSE svc_list_tasks(status, priority, limit)
    IN  /\ IF refused
           THEN out' = Report("src_cli_list_tasks", FALSE, arg, <<>>)
           ELSE \E s \in lists : out' = Report("src_cli_list_tasks", TRUE, arg, s)
        /\ UNCHANGED <<tasks, categories, tags, svc, now, messages, turns, sessions>>

\* tools/todo.py list_todo_tasks: TaskStatus(status.lower()) and
\* TaskPriority(priority.lower()) raise on an unknown value
list_todo_tasks(status, priority, limit) ==
    LET arg == [status |-> status, priority |-> priority, limit |-> limit,
                all_tasks |-> FALSE]
        invalid == \/ Truthy(status) /\ Lower(status) \notin TaskStatus
                   \/ Truthy(priority) /\ Lower(priority) \notin SvcTaskPriority
        task_status == IF Truthy(status) THEN Lower(status) ELSE NoneStr
        task_priority == IF Truthy(priority) THEN Lower(priority) ELSE NoneStr
    IN  /\ IF invalid
           THEN out' = Report("list_todo_tasks", FALSE, arg, <<>>)
           ELSE \E s \in svc_list_tasks(task_status, task_priority, limit) :
                    out' = Report("list_todo_tasks", TRUE, arg, s)
        /\ UNCHANGED <<tasks, categories, tags, svc, now, messages, turns, sessions>>

\* TaskService.search_tasks: the lists it may return
svc_search_tasks(keyword) ==
    LET found == {i \in Ids(svc) :
                    Like(svc[i].title, keyword) \/ Like(svc[i].description, keyword)}
        created_at == [i \in Ids(svc) |-> svc[i].created_at]
    IN  OrderBy(found, created_at, TRUE)

\* src/cli/task_commands.py search_tasks
src_cli_search_tasks(keyword, limit) ==
    LET arg == [query |-> keyword, limit |-> limit] IN
    /\ \E s \in svc_search_tasks(keyword) :
          out' = Report("src_cli_search_tasks", TRUE, arg,
                        IF limit # NoLimit THEN Take(s, limit) ELSE s)
    /\ UNCHANGED <<tasks, categories, tags, svc, now, messages, turns, sessions>>

\* str.strip() on the keywords the model passes
Strip(s) ==
    CASE s = " milk " -> "milk"
      [] s = " " -> ""
      [] OTHER -> s

\* tools/todo.py search_todo_tasks
search_todo_tasks(keyword) ==
    LET arg == [query |-> keyword, limit |-> NoLimit] IN
    /\ IF ~Truthy(keyword) \/ Strip(keyword) = ""
       THEN out' = Report("search_todo_tasks", FALSE, arg, <<>>)
       ELSE \E s \in svc_search_tasks(Strip(keyword)) :
                out' = Report("search_todo_tasks", TRUE, arg, s)
    /\ UNCHANGED <<tasks, categories, tags, svc, now, messages, turns, sessions>>

(* ----------------------- overdue and due status ----------------------- *)

\* Task.is_overdue (models/task.py): False without a due date or when
\* completed; otherwise the value of `self.due_date < func.now()`, which is
\* an SQL expression object and not a bool
Task_is_overdue(row) ==
    IF row.due_date = NoTime \/ row.status = COMPLETED THEN "False"
    ELSE "BinaryExpression"

\* commands/task.py dashboard_view and display_dashboard: the overdue count
\* of the panel, nothing when no task is selected
dashboard_view(status, category) ==
    LET arg == [status |-> status, category |-> category]
        selected == {i \in Ids(tasks) :
                        /\ Truthy(status) => tasks[i].status = parse_status(status)
                        /\ Truthy(category) => InCategory(tasks[i], category)}
        overdue == {i \in selected : /\ tasks[i].due_date # NoTime
                                     /\ tasks[i].due_date < now
                                     /\ tasks[i].status # COMPLETED}
    IN  /\ out' = Report("dashboard_view", TRUE, arg,
                         IF selected = {} THEN <<>> ELSE <<Cardinality(overdue)>>)
        /\ UNCHANGED <<tasks, categories, tags, svc, now, messages, turns, sessions>>

\* commands/stats.py show_overview: the Overdue row of the table
show_overview ==
    LET overdue_tasks == {i \in Ids(tasks) : /\ tasks[i].due_date # NoTime
                                             /\ tasks[i].due_date < now
                                             /\ tasks[i].status # COMPLETED}
    IN  /\ out' = Report("show_overview", TRUE, <<>>, <<Cardinality(overdue_tasks)>>)
        /\ UNCHANGED <<tasks, categories, tags, svc, now, messages, turns, sessions>>

\* src/cli/task_commands.py list_tasks: the mark on a row's due-date cell
due_text(row, t) ==
    IF row.due_date = NoTime THEN ""
    ELSE IF is_overdue(row.due_date, t) /\ row.status # COMPLETED THEN "overdue"
    ELSE IF get_due_status(row.due_date, t) = "due today" THEN "today"
    ELSE "plain"

\* src/cli/task_commands.py show_task: the due status printed with the task
show_task(task_id) ==
    LET arg == [task_id |-> task_id] IN
    /\ IF task_id \notin Ids(svc)
       THEN out' = Report("show_task", FALSE, arg, <<>>)
       ELSE out' = Report("show_task", TRUE, arg,
                          <<IF svc[task_id].due_date # NoTime
                            THEN get_due_status(svc[task_id].due_date, now)
                            ELSE "">>)
    /\ UNCHANGED <<tasks, categories, tags, svc, now, messages, turns, sessions>>

(* ------------------------- todo package: chat ------------------------- *)

\* chat.py line 196: the history is trimmed when it holds more messages
TrimAbove == 20
\* chat.py line 199: the recent messages a trim keeps after the system prompt
KeepRecent == 15

\* TodoChatBot.chat, one iteration of the loop on a non-blank input that is
\* not an exit word.  The language model answers with tool_calls tool calls
\* (each for current_datetime, which changes no store); appended is the
\* number of messages the iteration appended after the user's message before
\* model.invoke or a tool raised, or all of them when nothing raised.  An
\* exception skips the trimming and the loop continues.
chat(tool_calls, appended) ==
    LET human == [type |-> "human", tool_calls |-> 0, tool_call |-> 0]
        response == [type |-> "ai", tool_calls |-> tool_calls, tool_call |-> 0]
        tool_output == [k \in 1..tool_calls |->
                           [type |-> "tool", tool_calls |-> 0, tool_call |-> k]]
        final_response == [type |-> "ai", tool_calls |-> 0, tool_call |-> 0]
        turn == IF tool_calls = 0 THEN <<response>>
                ELSE (<<response>> \o tool_output) \o <<final_response>>
        raised == appended < Len(turn)
        grown == (messages \o <<human>>) \o SubSeq(turn, 1, appended)
        system_msg == grown[1]
        recent_msgs == SubSeq(grown, Len(grown) - KeepRecent + 1, Len(grown))
    IN  /\ turns < MaxTurns
        /\ appended \in 0..Len(turn)
        /\ turns' = turns + 1
        /\ messages' = IF ~raised /\ Len(grown) > TrimAbove
                       THEN <<system_msg>> \o recent_msgs
                       ELSE grown
        /\ out' = Report("chat", ~raised,
                         [tool_calls |-> tool_calls, appended |-> appended], <<>>)
        /\ UNCHANGED <<tasks, categories, tags, svc, now, sessions>>

(* --------------- todo package: concurrent add commands ---------------- *)

UniqueViolatedNever(table, name) == FALSE

\* Column(..., unique=True) on Category.name and Tag.name: the INSERT of a
\* row whose name is in the table raises IntegrityError
UniqueViolated(table, name) == \E i \in Ids(table) : table[i].name = name

\* commands/category.py add_category and commands/tag.py add_tag (op) run in
\* session s, one step of it.  A session that has not begun opens and runs
\* the existence query: a name in use ends the command with an error,
\* otherwise the session holds the new row.  A session that holds a row runs
\* db.add and db.commit against the table as it is by then: IntegrityError is
\* caught, rolled back and reported; otherwise the row is committed.
add_in_session(s, op, name) ==
    LET table == IF op = "add_category" THEN categories ELSE tags
        began == s \in DOMAIN sessions
        arg == [name |-> name, color |-> NoneStr, session |-> s,
                step |-> IF began THEN "commit" ELSE "query"]
        after == IF began /\ ~UniqueViolated(table, name)
                 THEN Insert(table, NewId(table),
                             [name |-> name, description |-> NoneStr, color |-> NoneStr])
                 ELSE table
    IN  /\ after # table => NewId(table) <= MaxId
        /\ IF ~began /\ ~NameTaken(table, name)
           THEN /\ sessions' = [i \in DOMAIN sessions \cup {s} |->
                                   IF i = s THEN [op |-> op, name |-> name]
                                   ELSE sessions[i]]
                /\ UNCHANGED out
           ELSE /\ sessions' = [i \in DOMAIN sessions \ {s} |-> sessions[i]]
                /\ out' = Report(op, after # table, arg, <<>>)
        /\ categories' = IF op = "add_category" THEN after ELSE categories
        /\ tags' = IF op = "add_tag" THEN after ELSE tags
        /\ UNCHANGED <<tasks, svc, now, messages, turns>>

\* time passes between two commands
Tick ==
    /\ now < MaxTime
    /\ now' = now + 1
    /\ UNCHANGED <<tasks, categories, tags, svc, out, messages, turns, sessions>>

\* the default of --limit in list and search, and in the Langchain tools
DefaultLimit == 50
\* the default of --limit in tree
TreeLimit == 100

\* search with no option given: the defaults of the typer options
NoOptions ==
    [query |-> NoneStr, status |-> NoneStr, category |-> NoneStr, tag |-> NoneStr,
     priority |-> NoneStr, due_before |-> NoneStr, due_after |-> NoneStr,
     created_before |-> NoneStr, created_after |-> NoneStr, overdue |-> FALSE,
     no_category |-> FALSE, no_tags |-> FALSE, limit |-> DefaultLimit,
     sort_by |-> "created", reverse |-> FALSE]

\* the Langchain search_tasks with no argument given
LcNoOptions ==
    [query |-> NoneStr, status |-> NoneStr, category |-> NoneStr, tag |-> NoneStr,
     priority |-> NoneStr, due_before |-> NoneStr, due_after |-> NoneStr,
     created_before |-> NoneStr, created_after |-> NoneStr, overdue |-> FALSE,
     limit |-> DefaultLimit]

(* ------------------------- specifications ----------------------------- *)

Init ==
    /\ tasks = EmptyTable
    /\ categories = EmptyTable
    /\ tags = EmptyTable
    /\ svc = EmptyTable
    /\ now = 1
    /\ out = Report("init", TRUE, <<>>, <<>>)
    /\ messages = <<[type |-> "system", tool_calls |-> 0, tool_call |-> 0]>>
    /\ turns = 0
    /\ sessions = <<>>

TaskIds == 1..MaxId

(* The task life cycle in the todo package's store. *)

CliAdd ==
    \E due \in {NoneStr, "2024-01-02", "not-a-date"} :
        add_task("a", NoneStr, "medium", NoneStr, {}, due)

CliComplete == \E id \in TaskIds : complete_task(id)

CliDelete == \E id \in TaskIds : delete_task(id, TRUE, FALSE)

CliUpdate ==
    \E id \in TaskIds, status \in {NoneStr, PENDING, COMPLETED},
       due \in {NoneStr, "not-a-date"} :
        update_task(id, NoneStr, NoneStr, NoneStr, status, NoneStr, due,
                    FALSE, FALSE)

ImportFile ==
    {<<[title |-> "a", description |-> NoneStr, status |-> st, priority |-> "medium",
        due_date |-> NoneStr, category |-> NoneStr, tags |-> {}]>> :
        st \in {PENDING, COMPLETED}}

Import == \E items \in ImportFile : import_data(items, FALSE, FALSE)

NextCli ==
    \/ CliAdd \/ CliComplete \/ CliDelete \/ CliUpdate
    \/ Import \/ Tick
    \/ add_task("", NoneStr, "medium", NoneStr, {}, NoneStr)
    \/ lc_add_task("", NoneStr, "medium", NoneStr, {}, NoneStr)
    \/ \E id \in TaskIds :
          update_task(id, "", NoneStr, NoneStr, NoneStr, NoneStr, NoneStr, FALSE, FALSE)
    \/ import_data(<<[title |-> "", description |-> NoneStr, status |-> PENDING,
                     priority |-> "medium", due_date |-> NoneStr,
                     category |-> NoneStr, tags |-> {}]>>, FALSE, FALSE)
    \/ \E reverse \in BOOLEAN :
          search_tasks([NoOptions EXCEPT !.sort_by = "due", !.reverse = reverse])
    \/ \E items \in ImportFile, twice \in BOOLEAN :
          import_data(IF twice THEN items \o items ELSE items, FALSE, TRUE)

SpecCli == Init /\ [][NextCli]_vars

(* Categories and tags, and the tasks filed under them. *)

CategoryNames == {"Work", "Home"}
TagNames == {"urgent", "later"}

CatAdd == \E name \in CategoryNames : add_category(name, NoneStr, NoneStr)

CatUpdate ==
    \E name \in CategoryNames, new_name \in CategoryNames :
        update_category(name, new_name, NoneStr, NoneStr)

CatDelete ==
    \E name \in CategoryNames, force \in BOOLEAN, confirm \in BOOLEAN :
        delete_category(name, force, confirm)

TagAdd == \E name \in TagNames : add_tag(name, NoneStr, NoneStr)

TagUpdate ==
    \E name \in TagNames, new_name \in TagNames :
        update_tag(name, new_name, NoneStr, NoneStr)

TagDelete ==
    \E name \in TagNames, force \in BOOLEAN, confirm \in BOOLEAN :
        delete_tag(name, force, confirm)

LcCatAdd == \E name \in CategoryNames : lc_add_category(name, NoneStr, NoneStr)

LcCatUpdate ==
    \E name \in CategoryNames, new_name \in CategoryNames :
        lc_update_category(name, new_name, NoneStr, NoneStr)

LcCatDelete == \E name \in CategoryNames : lc_delete_category(name)

LcTagAdd == \E name \in TagNames : lc_add_tag(name, NoneStr, NoneStr)

LcTagUpdate ==
    \E name \in TagNames, new_name \in TagNames :
        lc_update_tag(name, new_name, NoneStr, NoneStr)

LcTagDelete == \E name \in TagNames : lc_delete_tag(name)

FileTask ==
    /\ Cardinality(Ids(tasks)) < MaxFiled
    /\ \E category \in {NoneStr, "Work"}, tag_names \in {{}, {"urgent"}} :
          add_task("buy milk", NoneStr, "medium", category, tag_names, NoneStr)

NextCat ==
    \/ CatAdd \/ CatUpdate \/ CatDelete
    \/ TagAdd \/ TagUpdate \/ TagDelete
    \/ LcCatAdd \/ LcCatUpdate \/ LcCatDelete
    \/ LcTagAdd \/ LcTagUpdate \/ LcTagDelete
    \/ FileTask

SpecCat == Init /\ [][NextCat]_vars


(* The task life cycle in the src package's store. *)

SvcCreate ==
    \E due \in {"2024-01-02", "not-a-date"} :
        create_task("a", NoneStr, "medium", due)

SvcComplete == \E id \in TaskIds : svc_complete_task(id)

SvcStart == \E id \in TaskIds : svc_start_task(id)

SvcUpdate ==
    \E id \in TaskIds, status \in {NoneStr, CANCELLED},
       due \in {NoneStr, "not-a-date"} :
        src_cli_update_task(id, NoneStr, NoneStr, NoneStr, due, status)

ToolkitComplete == \E id \in TaskIds : complete_todo_task(id)

SvcDelete == \E id \in TaskIds : svc_delete_task(id)

NextSvc ==
    \/ SvcCreate \/ SvcComplete \/ SvcStart \/ SvcUpdate
    \/ ToolkitComplete \/ SvcDelete \/ Tick
    \/ \E priority \in {"medium", "HIGH", "bogus"}, status \in {"pending", "COMPLETED"} :
          add_todo_task("buy milk", NoneStr, priority, status, NoneStr)
    \/ \E status \in {PENDING, COMPLETED} :
          src_cli_add_task("buy milk", NoneStr, "high", status, NoneStr)

SpecSvc == Init /\ [][NextSvc]_vars

(* Listing and searching the src package's store. *)

\* the default of limit in list_todo_tasks
ToolkitLimit == 10

SvcCreatePlain == create_task("buy milk", NoneStr, "medium", NoneStr)

SvcCancel ==
    \E id \in TaskIds :
        src_cli_update_task(id, NoneStr, NoneStr, NoneStr, NoneStr, CANCELLED)

SrcCliList ==
    \E status \in {NoneStr, COMPLETED, "bogus"}, limit \in {NoLimit, 1},
       all_tasks \in BOOLEAN :
        src_cli_list_tasks(status, NoneStr, limit, all_tasks)

ToolkitList ==
    \E status \in {NoneStr, "bogus"}, limit \in {1, ToolkitLimit} :
        list_todo_tasks(status, NoneStr, limit)

SrcCliSearch == \E limit \in {NoLimit, 1} : src_cli_search_tasks("milk", limit)

ToolkitSearch == \E keyword \in {" milk ", " "} : search_todo_tasks(keyword)

NextList ==
    \/ SvcCreatePlain \/ SvcComplete \/ SvcCancel \/ Tick
    \/ SrcCliList \/ ToolkitList \/ SrcCliSearch \/ ToolkitSearch

SpecList == Init /\ [][NextList]_vars

(* Listing and searching the todo package's store. *)

QueryAdd ==
    /\ Cardinality(Ids(tasks)) < MaxFiled
    /\ \E category \in {NoneStr, "Work"}, due \in {NoneStr, "2024-01-02"} :
          add_task("buy milk", NoneStr, "high", category, {}, due)

WorkAdd == add_category("Work", NoneStr, NoneStr)

CliList ==
    \E status \in {NoneStr, "COMPLETED", "bogus"}, priority \in {NoneStr, "bogus"},
       category \in {NoneStr, "Work"}, all_tasks \in BOOLEAN :
        list_tasks(status, category, NoneStr, priority, DefaultLimit, all_tasks)

TreeView == \E status \in {NoneStr, "bogus"} : tree_view("category", status, TreeLimit)

LcList ==
    \E status \in {NoneStr, "bogus"}, priority \in {NoneStr, "bogus"} :
        lc_list_tasks(status, NoneStr, NoneStr, priority, DefaultLimit, FALSE)

SearchInputs ==
    {[NoOptions EXCEPT !.query = q, !.status = st, !.priority = pr] :
        q \in {NoneStr, "MILK"}, st \in {NoneStr, "completed", "bogus"},
        pr \in {NoneStr, "high"}}
    \cup {[NoOptions EXCEPT !.category = c, !.no_category = nc, !.overdue = ov] :
        c \in {NoneStr, "Work"}, nc \in BOOLEAN, ov \in BOOLEAN}
    \cup {[NoOptions EXCEPT !.due_before = d, !.created_after = c] :
        d \in {NoneStr, "2024-01-02", "not-a-date"}, c \in {NoneStr, "2024-01-02"}}
    \cup {[NoOptions EXCEPT !.sort_by = sb, !.reverse = rv, !.limit = 1] :
        sb \in {"due", "priority", "title", "updated"}, rv \in BOOLEAN}

CliSearch == \E o \in SearchInputs : search_tasks(o)

LcSearchInputs ==
    {[LcNoOptions EXCEPT !.query = q, !.status = st, !.category = c, !.overdue = ov] :
        q \in {NoneStr, "MILK"}, st \in {NoneStr, "completed"},
        c \in {NoneStr, "Work"}, ov \in BOOLEAN}

LcSearch == \E o \in LcSearchInputs : lc_search_tasks(o)

NextSearch ==
    \/ QueryAdd \/ WorkAdd \/ CliComplete \/ Tick
    \/ CliList \/ TreeView \/ LcList \/ CliSearch \/ LcSearch

SpecSearch == Init /\ [][NextSearch]_vars

(* Search and update with contradictory or failing options. *)

PrecedenceInputs ==
    {[NoOptions EXCEPT !.category = c, !.no_category = nc, !.tag = t, !.no_tags = nt] :
        c \in {NoneStr, "Work"}, nc \in BOOLEAN,
        t \in {NoneStr, "urgent"}, nt \in BOOLEAN}

PrecedenceSearch == \E o \in PrecedenceInputs : search_tasks(o)

UrgentAdd == add_tag("urgent", NoneStr, NoneStr)

NextPrecedence ==
    \/ WorkAdd \/ UrgentAdd \/ FileTask \/ PrecedenceSearch
    \/ \E id \in Ids(tasks), title \in {NoneStr, "buy tea"},
          category \in {NoneStr, "Work", "Nowhere"},
          due \in {NoneStr, "not-a-date"}, clear_category \in BOOLEAN :
          update_task(id, title, NoneStr, NoneStr, NoneStr, category, due,
                      FALSE, clear_category)
    \/ \E id \in Ids(tasks), title \in {NoneStr, "buy tea"},
          category \in {NoneStr, "Work", "Nowhere"},
          due \in {NoneStr, "not-a-date"}, clear_category \in BOOLEAN :
          lc_update_task(id, title, NoneStr, NoneStr, NoneStr, category, due,
                         clear_category)

SpecPrecedence == Init /\ [][NextPrecedence]_vars

(* Date strings at the entry points that take a date: task add, update and
   search of the todo CLI, create and update of the src package. pendulum is
   given no year-less string. *)

NextResolve ==
    \/ /\ Cardinality(Ids(tasks)) < MaxFiled
       /\ \E due \in {"2024-01-02", "2024-01-03 10:30", "01-02", "01/02", "today",
                      "Tomorrow", "zh-tomorrow", "NEXT WEEK", "next month",
                      "not-a-date"} :
             add_task("buy milk", NoneStr, NoneStr, NoneStr, {}, due)
    \/ \E id \in TaskIds, due \in {"01-02", "Tomorrow"} :
          update_task(id, NoneStr, NoneStr, NoneStr, NoneStr, NoneStr, due, FALSE, FALSE)
    \/ \E due \in {"2024-01-03 10:30", "01/02", "zh-tomorrow"} :
          search_tasks([NoOptions EXCEPT !.due_before = due])
    \/ /\ Cardinality(Ids(svc)) < MaxFiled
       /\ \E due \in {"2024-01-02", "2024-01-02 10:30", "2024-01-03 10:30", "today",
                      "Tomorrow", "zh-tomorrow", "NEXT WEEK", "next month",
                      "not-a-date"} :
             create_task("buy milk", NoneStr, "medium", due)
    \/ \E id \in TaskIds, due \in {"2024-01-02", "NEXT WEEK", "not-a-date"} :
          src_cli_update_task(id, NoneStr, NoneStr, NoneStr, due, NoneStr)
    \/ Tick

SpecResolve == Init /\ [][NextResolve]_vars

(* Searching, counting and showing tasks with due dates. The two packages
   keep separate databases, and a run uses one of them. *)

NextFind ==
    \/ /\ Ids(svc) = {}
       /\ Cardinality(Ids(tasks)) < MaxFiled
       /\ \E due \in {NoneStr, "2024-01-02"} :
             add_task("buy milk", NoneStr, NoneStr, NoneStr, {}, due)
    \/ /\ Ids(svc) = {}
       /\ \E id \in TaskIds : complete_task(id)
    \/ /\ Ids(svc) = {}
       /\ \E id \in TaskIds :
             update_task(id, NoneStr, NoneStr, NoneStr, CANCELLED, NoneStr, NoneStr,
                         FALSE, FALSE)
    \/ /\ Ids(svc) = {}
       /\ \E o \in {[NoOptions EXCEPT !.query = "MILK"], [NoOptions EXCEPT !.query = "tea"],
                    [NoOptions EXCEPT !.query = "MILK", !.status = "completed"]} :
             search_tasks(o)
    \/ /\ Ids(svc) = {}
       /\ \E d \in {"2024-01-02", "2024-01-03 10:30"} :
             \/ search_tasks([NoOptions EXCEPT !.due_before = d])
             \/ search_tasks([NoOptions EXCEPT !.due_after = d])
    \/ /\ Ids(svc) = {}
       /\ \/ search_tasks([NoOptions EXCEPT !.created_before = "2024-01-02"])
          \/ search_tasks([NoOptions EXCEPT !.created_after = "2024-01-02"])
    \/ /\ Ids(svc) = {}
       /\ search_tasks([NoOptions EXCEPT !.overdue = TRUE])
    \/ /\ Ids(svc) = {}
       /\ dashboard_view(NoneStr, NoneStr)
    \/ /\ Ids(svc) = {}
       /\ show_overview
    \/ /\ Ids(tasks) = {}
       /\ Cardinality(Ids(svc)) < MaxFiled
       /\ \E due \in {NoneStr, "2024-01-02", "2024-01-02 10:30", "2024-01-03 10:30"} :
             create_task("buy milk", NoneStr, "medium", due)
    \/ /\ Ids(tasks) = {}
       /\ \E id \in TaskIds : svc_complete_task(id)
    \/ /\ Ids(tasks) = {}
       /\ \E id \in TaskIds :
             src_cli_update_task(id, NoneStr, NoneStr, NoneStr, NoneStr, CANCELLED)
    \/ /\ Ids(tasks) = {}
       /\ \E limit \in {NoLimit, 1} : src_cli_search_tasks("milk", limit)
    \/ /\ Ids(tasks) = {}
       /\ \E id \in TaskIds : show_task(id)
    \/ Tick

SpecFind == Init /\ [][NextFind]_vars

(* The colours given to categories and tags. *)

NextColor ==
    \/ \E name \in {"Work", "Home"}, color \in {NoneStr, "#FF5733", "FF5733", "#GGGGGG", "red", "#FFF"} :
          add_category(name, NoneStr, color)
    \/ \E color \in {"FF5733", "#GGGGGG", "#FFF"} :
          update_category("Work", NoneStr, NoneStr, color)
    \/ \E color \in {NoneStr, "#FF5733", "#GGGGGG", "red"} :
          add_tag("urgent", NoneStr, color)
    \/ \E color \in {"#FF5733", "#GGGGGG", "red"} :
          update_tag("urgent", NoneStr, NoneStr, color)
    \/ \E color \in {"FF5733", "#GGGGGG", "#FFF"} :
          lc_add_category("Home", NoneStr, color)
    \/ \E color \in {"FF5733", "#GGGGGG"} :
          lc_update_tag("urgent", NoneStr, NoneStr, color)

SpecColor == Init /\ [][NextColor]_vars

(* The chat loop: turns that succeed, make tool calls, or raise. *)

NextChat ==
    \E tool_calls \in 0..MaxCalls, appended \in 0..(MaxCalls + 2) :
        chat(tool_calls, appended)

SpecChat == Init /\ [][NextChat]_vars

(* Add commands for categories and tags that run at the same time. *)

NextRace ==
    \/ \E s \in (1..MaxSessions) \ DOMAIN sessions, op \in {"add_category", "add_tag"},
          name \in {"Work", "Home"} :
          add_in_session(s, op, name)
    \/ \E s \in DOMAIN sessions :
          add_in_session(s, sessions[s].op, sessions[s].name)

SpecRace == Init /\ [][NextRace]_vars

(* ------------------------------ claims -------------------------------- *)

\* C1: in every reachable state a stored task's completed_at is set if and
\* only if its status is completed (both stores).
C1_CompletedAtIffCompleted ==
    /\ \A i \in Ids(tasks) :
          (tasks[i].completed_at # NoTime) <=> (tasks[i].status = COMPLETED)
    /\ \A i \in Ids(svc) :
          (svc[i].completed_at # NoTime) <=> (svc[i].status = COMPLETED)

\* C9: once a task's completed_at has a value, no later step on that task
\* changes the value.
C9_CompletedAtWrittenOnce ==
    [][/\ \A i \in Ids(tasks) \cap Ids(tasks') :
             tasks[i].completed_at # NoTime
                 => tasks'[i].completed_at = tasks[i].completed_at
       /\ \A i \in Ids(svc) \cap Ids(svc') :
             svc[i].completed_at # NoTime
                 => svc'[i].completed_at = svc[i].completed_at]_vars

\* the due-date string a create or update call was given, if any
ReportDue(o) ==
    CASE o.op \in {"add_task", "update_task", "lc_add_task", "lc_update_task",
                   "create_task"} -> o.arg.due_date
      [] o.op = "svc_update_task" ->
            IF "due_date" \in DOMAIN o.arg.kwargs THEN o.arg.kwargs.due_date
            ELSE NoneStr
      [] OTHER -> NoneStr

\* the string matches one of the absolute formats or the relative vocabulary
Recognised(date_str) ==
    parse_date(date_str) # NoTime \/ parse_datetime(date_str, 1) # NoTime

\* C10: a create or update given a due-date string that matches no
\* recognised format reports an error and leaves the stores unchanged.
C10_BadDueRejected ==
    [][(Truthy(ReportDue(out')) /\ ~Recognised(ReportDue(out')))
          => (~out'.ok /\ tasks' = tasks /\ svc' = svc)]_vars

\* the rows of a table that carry a name
Named(table, name) == {i \in Ids(table) : table[i].name = name}

UniqueNames(table) ==
    \A i, j \in Ids(table) : table[i].name = table[j].name => i = j

\* a step that adds an entity under a name in use, or renames one entity to
\* the name of another, is rejected and leaves the table as it was
RejectsUsedName(ops_add, ops_update, table, table_after) ==
    /\ (out'.op \in ops_add /\ Named(table, out'.arg.name) # {})
          => (~out'.ok /\ table_after = table)
    /\ (/\ out'.op \in ops_update
        /\ Named(table, out'.arg.name) # {}
        /\ Named(table, out'.arg.new_name) \ Named(table, out'.arg.name) # {})
          => (~out'.ok /\ table_after = table)

\* C7: category names are unique among categories and tag names among tags
\* in every reachable state, and an add or a rename whose target name
\* belongs to a different entity is rejected and leaves the collection
\* unchanged.
C7_NamesUnique ==
    /\ [](UniqueNames(categories) /\ UniqueNames(tags))
    /\ [][/\ RejectsUsedName({"add_category", "lc_add_category"},
                             {"update_category", "lc_update_category"},
                             categories, categories')
          /\ RejectsUsedName({"add_tag", "lc_add_tag"},
                             {"update_tag", "lc_update_tag"},
                             tags, tags')]_vars

\* a rename to the name of the other category has just been rejected
C7_Witness ==
    /\ out.op \in {"update_category", "lc_update_category"}
    /\ ~out.ok
    /\ out.arg.name # out.arg.new_name
    /\ Named(categories, out.arg.name) # {}
    /\ Named(categories, out.arg.new_name) # {}

Stores == <<tasks, categories, tags>>

\* C8: deleting a category or tag that at least one task references, without
\* force, fails and leaves tasks, categories and tags unchanged; the entity
\* is removed only when no task references it or force was given.
C8_ReferencedDeleteNeedsForce ==
    [][/\ out'.op \in {"delete_category", "lc_delete_category"} =>
            \A id \in Named(categories, out'.arg.name) :
                LET used == \E t \in Ids(tasks) : tasks[t].category_id = id IN
                /\ (used /\ ~out'.arg.force) => (~out'.ok /\ UNCHANGED Stores)
                /\ id \notin Ids(categories') => (~used \/ out'.arg.force)
       /\ out'.op \in {"delete_tag", "lc_delete_tag"} =>
            \A id \in Named(tags, out'.arg.name) :
                LET used == \E t \in Ids(tasks) : id \in tasks[t].tags IN
                /\ (used /\ ~out'.arg.force) => (~out'.ok /\ UNCHANGED Stores)
                /\ id \notin Ids(tags') => (~used \/ out'.arg.force)]_vars

\* a delete without force of a category a task is filed under has just failed
C8_Witness ==
    /\ out.op \in {"delete_category", "lc_delete_category"}
    /\ ~out.ok /\ ~out.arg.force
    /\ \E id \in Named(categories, out.arg.name) :
          \E t \in Ids(tasks) : tasks[t].category_id = id

Range(s) == {s[k] : k \in DOMAIN s}

Min(a, b) == IF a < b THEN a ELSE b

\* C2: a listing operation called with no status filter and no show-all
\* override returns only pending and in_progress tasks.
C2_DefaultHidesFinished ==
    [][(/\ out'.op \in {"list_tasks", "tree_view", "lc_list_tasks",
                        "src_cli_list_tasks", "list_todo_tasks"}
        /\ out'.ok
        /\ ~Truthy(out'.arg.status)
        /\ ~out'.arg.all_tasks)
       => LET store == IF out'.op \in {"src_cli_list_tasks", "list_todo_tasks"}
                       THEN svc' ELSE tasks'
          IN  \A i \in Range(out'.res) :
                  store[i].status \in {PENDING, IN_PROGRESS}]_vars

\* the tasks that pass the filters of a listing of the src package's store
SvcListMatches(op, a) ==
    {i \in Ids(svc) :
        IF op = "src_cli_list_tasks" /\ a.all_tasks THEN TRUE
        ELSE IF op = "src_cli_list_tasks" /\ a.status = NoneStr
        THEN svc[i].status # COMPLETED
        ELSE /\ Truthy(a.status) => svc[i].status = Lower(a.status)
             /\ Truthy(a.priority) => svc[i].priority = Lower(a.priority)}

\* C3: with limit N, a listing returns the first min(N, M) of the M tasks
\* that pass its filters, in the order of its sort (newest first).
C3_LimitAfterFilter ==
    [][(/\ out'.op \in {"src_cli_list_tasks", "list_todo_tasks"}
        /\ out'.ok
        /\ out'.arg.limit # NoLimit)
       => LET M == SvcListMatches(out'.op, out'.arg)
              R == Range(out'.res)
          IN  /\ Len(out'.res) = Min(out'.arg.limit, Cardinality(M))
              /\ R \subseteq M
              /\ \A i \in R, j \in M \ R :
                    svc[i].created_at >= svc[j].created_at]_vars

\* a filter string that is given and is no member of the vocabulary
Unknown(a, field, vocabulary) ==
    /\ field \in DOMAIN a
    /\ Truthy(a[field])
    /\ Lower(a[field]) \notin vocabulary

\* C4: a list or search call with a status or priority filter outside the
\* vocabulary is reported as an error and returns no task.
C4_UnknownFilterRejected ==
    [][(/\ out'.op \in {"list_tasks", "tree_view", "lc_list_tasks", "search_tasks",
                        "lc_search_tasks", "src_cli_list_tasks", "list_todo_tasks"}
        /\ \/ Unknown(out'.arg, "status", TaskStatus)
           \/ Unknown(out'.arg, "priority", TaskPriority))
       => (~out'.ok /\ out'.res = <<>>)]_vars

\* search options whose meaning the other claims settle: an unknown status or
\* priority, a date bound that does not parse, contradictory options
Plain(o) ==
    /\ ~Unknown(o, "status", TaskStatus) /\ ~Unknown(o, "priority", TaskPriority)
    /\ \A d \in {o.due_before, o.due_after, o.created_before, o.created_after} :
          Truthy(d) => parse_date(d) # NoTime
    /\ "no_category" \in DOMAIN o => ~(Truthy(o.category) /\ o.no_category)
    /\ "no_tags" \in DOMAIN o => ~(Truthy(o.tag) /\ o.no_tags)

\* a stored task meets every criterion given in the search options o
MeetsAll(row, o) ==
    /\ Truthy(o.query) => (Like(row.title, o.query) \/ Like(row.description, o.query))
    /\ Truthy(o.status) => row.status = Lower(o.status)
    /\ Truthy(o.priority) => row.priority = Lower(o.priority)
    /\ Truthy(o.category) =>
          \E c \in Ids(categories) :
              categories[c].name = o.category /\ row.category_id = c
    /\ Truthy(o.tag) => \E t \in row.tags : tags[t].name = o.tag
    /\ ("no_category" \in DOMAIN o /\ o.no_category) => row.category_id = NoId
    /\ ("no_tags" \in DOMAIN o /\ o.no_tags) => row.tags = {}
    /\ Truthy(o.due_before) =>
          (row.due_date # NoTime /\ row.due_date <= parse_date(o.due_before))
    /\ Truthy(o.due_after) =>
          (row.due_date # NoTime /\ row.due_date >= parse_date(o.due_after))
    /\ Truthy(o.created_before) => row.created_at <= parse_date(o.created_before)
    /\ Truthy(o.created_after) => row.created_at >= parse_date(o.created_after)
    /\ o.overdue =>
          (row.due_date # NoTime /\ row.due_date < now /\ row.status # COMPLETED)

\* C6: every search entry point returns only tasks that meet all the
\* criteria given, and all of them up to the limit.
C6_SearchHonoursAllCriteria ==
    [][(out'.op \in {"search_tasks", "lc_search_tasks"} /\ Plain(out'.arg))
       => LET M == {i \in Ids(tasks) : MeetsAll(tasks[i], out'.arg)} IN
          /\ out'.ok
          /\ Range(out'.res) \subseteq M
          /\ Len(out'.res) = Min(out'.arg.limit, Cardinality(M))]_vars

\* search was given both a category name and no_category
BothCategory(o) == Truthy(o.category) /\ o.no_category

\* search was given both a tag name and no_tags
BothTag(o) == Truthy(o.tag) /\ o.no_tags

Resolved(date_str, t) ==
    IF parse_date(date_str) # NoTime THEN parse_date(date_str)
    ELSE parse_datetime(date_str, t)

\* the due date the task of a successful create or update report holds
StoredDue(o, todo_table, svc_table) ==
    IF o.op \in {"create_task", "svc_update_task"}
    THEN svc_table[o.res[1]].due_date
    ELSE todo_table[o.res[1]].due_date

\* C11: a due-date string resolves to the first listed absolute format that
\* parses, else to its relative word, else to a parse error: a create or
\* update given the string stores exactly that timestamp, and reports an
\* error, storing nothing, when there is none.
C11_ResolutionOrder ==
    [][(/\ now' = now
        /\ out'.op \in {"add_task", "update_task", "create_task", "svc_update_task"}
        /\ Truthy(ReportDue(out'))
        /\ out'.op = "update_task" => out'.arg.task_id \in Ids(tasks)
        /\ out'.op = "svc_update_task" => out'.arg.task_id \in Ids(svc))
          => IF Resolved(ReportDue(out'), now) # NoTime
             THEN out'.ok /\ StoredDue(out', tasks', svc') = Resolved(ReportDue(out'), now)
             ELSE ~out'.ok /\ tasks' = tasks /\ svc' = svc]_vars

\* overdue, by the definition of the specification
Overdue(row, t) == row.due_date # NoTime /\ row.due_date < t /\ row.status # COMPLETED

\* C12: wherever overdue is computed (the Task.is_overdue property, the mark
\* of the src listing, overdue-only search, the dashboard count and the
\* overview count), a task is overdue exactly when it has a due date
\* strictly before now and is not completed.
C12_OverdueEverywhere ==
    [][/\ \A i \in Ids(tasks') :
             Task_is_overdue(tasks'[i])
                 = IF Overdue(tasks'[i], now') THEN "True" ELSE "False"
       /\ \A i \in Ids(svc') :
             (due_text(svc'[i], now') = "overdue") <=> Overdue(svc'[i], now')
       /\ now' = now =>
             /\ (out'.op = "search_tasks" /\ out'.arg = [NoOptions EXCEPT !.overdue = TRUE])
                => Range(out'.res) = {i \in Ids(tasks) : Overdue(tasks[i], now)}
             /\ (out'.op \in {"dashboard_view", "show_overview"} /\ Ids(tasks) # {})
                => out'.res = <<Cardinality({i \in Ids(tasks) : Overdue(tasks[i], now)})>>]_vars

\* newest first, and ascending id among tasks created at the same time
NewestFirstThenId(s, table) ==
    \A a, b \in 1..Len(s) :
        a < b => \/ table[s[a]].created_at > table[s[b]].created_at
                 \/ /\ table[s[a]].created_at = table[s[b]].created_at
                    /\ s[a] < s[b]

\* C13: a list or search result under the default sort is ordered by
\* created_at descending, and tasks with equal created_at appear in
\* ascending id order.
C13_TiesByAscendingId ==
    [][/\ (/\ out'.ok
           /\ out'.op \in {"src_cli_list_tasks", "list_todo_tasks",
                           "src_cli_search_tasks", "search_todo_tasks"})
          => NewestFirstThenId(out'.res, svc)
       /\ (/\ out'.ok
           /\ \/ out'.op \in {"list_tasks", "lc_list_tasks", "lc_search_tasks"}
              \/ out'.op = "search_tasks" /\ out'.arg.sort_by = "created"
                                            /\ ~out'.arg.reverse)
          => NewestFirstThenId(out'.res, tasks)]_vars

\* C14: a search sorted by due date, ascending or descending, returns every
\* task without a due date after every task that has one.
C14_NoDueDateLast ==
    [][(out'.op = "search_tasks" /\ out'.ok /\ out'.arg.sort_by = "due")
          => \A a, b \in 1..Len(out'.res) :
                (a < b /\ tasks[out'.res[a]].due_date = NoTime)
                    => tasks[out'.res[b]].due_date = NoTime]_vars

\* C20: every stored task has a non-empty title.
C20_TitleNonEmpty ==
    /\ \A i \in Ids(tasks) : Truthy(tasks[i].title)
    /\ \A i \in Ids(svc) : Truthy(svc[i].title)

\* the tasks of a table whose title or description contains the query
Containing(table, query) ==
    {i \in Ids(table) : Like(table[i].title, query) \/ Like(table[i].description, query)}

\* C15: a search with a free-text query and no status filter returns the
\* matching tasks of every status, completed and cancelled ones included
\* (the report of the search is the last one, so the stores are as it saw
\* them).
C15_SearchScansEveryStatus ==
    /\ (/\ out.op = "search_tasks"
        /\ Truthy(out.arg.query)
        /\ out.arg = [NoOptions EXCEPT !.query = out.arg.query])
       => /\ out.ok
          /\ Range(out.res) = Containing(tasks, out.arg.query)
    /\ (out.op = "src_cli_search_tasks" /\ out.arg.limit = NoLimit)
       => /\ out.ok
          /\ Range(out.res) = Containing(svc, out.arg.query)

\* a search by text alone has just returned a cancelled task
C15_Witness ==
    /\ out.op = "search_tasks"
    /\ out.arg = [NoOptions EXCEPT !.query = "MILK"]
    /\ \E i \in Range(out.res) : tasks[i].status = CANCELLED

\* the due status the specification gives a due date at time t
DueStatus(due, t) ==
    CASE due = NoTime -> ""
      [] due # NoTime /\ due < t -> "overdue"
      [] due >= t /\ date(due) = date(t) -> "due today"
      [] due >= t /\ date(due) = date(t) + 1 -> "due tomorrow"
      [] OTHER -> "upcoming"

year(t) == 2024 + (t \div YearTicks)

\* the date string names a month and a day and no year
YearLess(date_str) ==
    date_str \in DOMAIN Lexicon /\ Lexicon[date_str].fmt \in {"%m-%d", "%m/%d"}

\* C17: a due date given in a year-less form (MM-DD or MM/DD) is stored as a
\* timestamp of the year current when it is resolved.
C17_YearLessIsThisYear ==
    [][(/\ out'.op \in {"add_task", "update_task"}
        /\ YearLess(out'.arg.due_date)
        /\ out'.op = "update_task" => out'.arg.task_id \in Ids(tasks))
          => /\ out'.ok
             /\ year(tasks'[out'.res[1]].due_date) = year(now)]_vars

\* the relative vocabulary, in both languages, and the offset of each word
Offsets ==
    [w \in {"today", "zh-today", "tomorrow", "zh-tomorrow", "next week",
            "zh-next-week", "next month", "zh-next-month"} |->
        CASE w \in {"today", "zh-today"} -> 0
          [] w \in {"tomorrow", "zh-tomorrow"} -> DayTicks
          [] w \in {"next week", "zh-next-week"} -> 7 * DayTicks
          [] w \in {"next month", "zh-next-month"} -> 30 * DayTicks]

Relative(date_str) == Lower(date_str) \in DOMAIN Offsets

\* C18: a relative expression, in either language and any letter case,
\* resolves to now plus the offset of its word, and every entry point that
\* takes a date accepts it: add, update and search of the CLI, create and
\* update of the service.
C18_RelativeAcceptedEverywhere ==
    [][/\ (/\ now' = now
           /\ out'.op \in {"add_task", "update_task", "create_task", "svc_update_task"}
           /\ Relative(ReportDue(out'))
           /\ out'.op = "update_task" => out'.arg.task_id \in Ids(tasks)
           /\ out'.op = "svc_update_task" => out'.arg.task_id \in Ids(svc))
          => /\ out'.ok
             /\ StoredDue(out', tasks', svc') = now + Offsets[Lower(ReportDue(out'))]
       /\ (out'.op = "search_tasks" /\ Relative(out'.arg.due_before)) => out'.ok]_vars

\* the search was given date bounds and nothing else
OnlyBounds(o) ==
    /\ [o EXCEPT !.due_before = NoneStr, !.due_after = NoneStr,
                 !.created_before = NoneStr, !.created_after = NoneStr] = NoOptions
    /\ o # NoOptions

\* the row lies within the bounds given, each bound included
WithinBounds(row, o) ==
    /\ Truthy(o.due_before) =>
          (row.due_date # NoTime /\ row.due_date <= Lexicon[o.due_before].value)
    /\ Truthy(o.due_after) =>
          (row.due_date # NoTime /\ row.due_date >= Lexicon[o.due_after].value)
    /\ Truthy(o.created_before) => row.created_at <= Lexicon[o.created_before].value
    /\ Truthy(o.created_after) => row.created_at >= Lexicon[o.created_after].value

HexColor(color) == color = "#FF5733"

\* C21: every stored colour of a category or a tag is absent or a '#'
\* followed by six hexadecimal digits, and a colour input that is neither
\* (after the '#' is supplied) is rejected and leaves the table unchanged.
C21_StoredColourIsHex ==
    /\ \A i \in Ids(categories) :
          categories[i].color = NoneStr \/ HexColor(categories[i].color)
    /\ \A i \in Ids(tags) : tags[i].color = NoneStr \/ HexColor(tags[i].color)

\* the service-backed add operations of the src package
SvcAdds == {"add_todo_task", "src_cli_add_task"}

\* C22: add_todo_task, and the CLI add command on the same service, called
\* with a title and a valid priority and status, adds exactly one task with
\* that title, priority and status and reports success.
C22_AddCreatesOneTask ==
    [][(/\ out'.op \in SvcAdds
        /\ now' = now
        /\ Lower(out'.arg.priority) \in SvcTaskPriority
        /\ Lower(out'.arg.status) \in TaskStatus)
       => /\ out'.ok
          /\ \E id \in Ids(svc') \ Ids(svc) :
                /\ Ids(svc') = Ids(svc) \cup {id}
                /\ svc'[id].title = out'.arg.title
                /\ svc'[id].priority = Lower(out'.arg.priority)
                /\ svc'[id].status = Lower(out'.arg.status)
          /\ \A i \in Ids(svc) : svc'[i] = svc[i]]_vars

\* the tasks of the table that bear the title
Titled(table, title) == {i \in Ids(table) : table[i].title = title}

TaskUpdates == {"update_task", "lc_update_task"}

\* the update names a category that does not exist or gives a due date that
\* matches no format
FailsPartway(o) ==
    \/ Truthy(o.arg.category) /\ Named(categories, o.arg.category) = {}
    \/ Truthy(o.arg.due_date) /\ ~Recognised(o.arg.due_date)

\* C24: an update of a stored task that fails on an unknown category name or
\* an invalid due date, met after other changes were accepted, reports the
\* failure and persists nothing: the stored tasks are as before the call.
C24_UpdateAllOrNothing ==
    [][(/\ out'.op \in TaskUpdates
        /\ out'.arg.task_id \in Ids(tasks)
        /\ FailsPartway(out'))
       => (~out'.ok /\ tasks' = tasks)]_vars

\* an update that had accepted a new title has just failed on its category
C24_Witness ==
    /\ out.op \in TaskUpdates
    /\ ~out.ok
    /\ out.arg.task_id \in Ids(tasks)
    /\ Truthy(out.arg.title)
    /\ Truthy(out.arg.category) /\ Named(categories, out.arg.category) = {}
    /\ tasks[out.arg.task_id].title # out.arg.title

\* the update asks for nothing but a category change
OnlyCategory(o) ==
    /\ ~Truthy(o.arg.title) /\ ~Truthy(o.arg.due_date)
    /\ o.arg.description = NoneStr /\ o.arg.priority = NoneStr /\ o.arg.status = NoneStr

\* the fields an update of the category leaves alone
Kept(row) == [f \in {"title", "status", "priority", "due_date", "completed_at", "tags"} |-> row[f]]

\* C25: an update with clear-category removes only the category reference:
\* the task is still stored under its id, has no category, and its title,
\* status, priority, due date, completed_at and tags are as before; by the
\* CLI update and by the agent-tool update alike.
C25_ClearCategoryKeepsTask ==
    [][(/\ out'.op \in TaskUpdates
        /\ out'.arg.clear_category
        /\ out'.arg.task_id \in Ids(tasks)
        /\ OnlyCategory(out')
        /\ ~FailsPartway(out'))
       => LET id == out'.arg.task_id IN
          /\ id \in Ids(tasks')
          /\ tasks'[id].category_id = NoId
          /\ Kept(tasks'[id]) = Kept(tasks[id])]_vars

Forced(o, op) == o.op = op /\ o.ok /\ o.arg.force /\ o.res # <<>>

C28_HistoryBounded ==
    /\ messages[1].type = "system"
    /\ Len(messages) <= 20

\* each tool result follows the assistant message whose call produced it,
\* and each assistant message is followed by a result for each of its calls
Paired(history) ==
    \A i \in 1..Len(history) :
        /\ history[i].type = "tool" =>
              LET k == history[i].tool_call IN
              /\ i - k >= 1
              /\ history[i - k].type = "ai"
              /\ history[i - k].tool_calls >= k
        /\ history[i].type = "ai" =>
              \A k \in 1..history[i].tool_calls :
                  /\ i + k <= Len(history)
                  /\ history[i + k].type = "tool"
                  /\ history[i + k].tool_call = k

\* C29: in the history sent to the model every tool result is preceded by
\* the assistant message whose tool call produced it and every assistant
\* message with tool calls is followed by a result for each call; neither
\* the trimming nor an error raised by a tool breaks the pairing.
C29_ToolCallsPaired == Paired(messages)

\* the table an add command writes
TableOf(op, cats, tgs) == IF op = "add_category" THEN cats ELSE tgs

\* C30: when two add-category (or two add-tag) commands with one name run in
\* separate sessions and both pass the existence check before either
\* commits, at most one commits; the other reports failure, its insert is
\* rolled back, and the name stays unique in the store.
C30_OneConcurrentAddCommits ==
    [][/\ UniqueNames(categories') /\ UniqueNames(tags')
       /\ \A s \in DOMAIN sessions \ DOMAIN sessions' :
             LET op == sessions[s].op
                 name == sessions[s].name
                 before == TableOf(op, categories, tags)
                 after == TableOf(op, categories', tags')
             IN  IF Named(before, name) # {}
                 THEN ~out'.ok /\ after = before
                 ELSE /\ out'.ok
                      /\ Cardinality(Named(after, name)) = 1
                      /\ \A i \in Ids(before) : after[i] = before[i]]_vars

\* a session that had passed the existence check has just failed to commit
\* because another session committed the name first
C30_Witness ==
    /\ out.op \in {"add_category", "add_tag"}
    /\ ~out.ok
    /\ out.arg.step = "commit"
    /\ Named(TableOf(out.op, categories, tags), out.arg.name) # {}

====
